---- MODULE Spec2Model ----
(***************************************************************************)
(* The asynchronous job lifecycle controller of law-frontend/src/App.jsx.  *)
(* The file holds two App components: the simulated driver (lines 240-580, *)
(* local timers, no network) and the live driver (lines 592-844, network   *)
(* requests and a polling interval).  The variable `driver` says which of  *)
(* the two components is mounted; it never changes.                        *)
(*                                                                         *)
(* One action is one JavaScript task: a user event handler, a timer        *)
(* callback, or the continuation of an async function after the response   *)
(* it awaits (with the microtasks it triggers and the React render and     *)
(* effects that follow its setState calls).                                *)
(***************************************************************************)
EXTENDS Integers, Sequences, FiniteSets, TLC

\* ---------------------------------------------------------------- bounds
\* start() invocations in one behaviour
MaxSubs == 2
\* characters of a file name given to isAllowed
MaxNameLen == 5

\* ------------------------------------------------------ program constants
totalMs == 9000
tickMs == 120
toRunningMs == 900
progressCap == 96
progressDone == 100
Accepted == 202
NotFound == 404

Subs == 1..MaxSubs

\* ------------------------------------------------------------ file names
NameHtml == <<"l", "a", "w", ".", "h", "t", "m", "l">>
NameXmlUpper == <<"a", ".", "X", "M", "L">>
NamePdf == <<"b", ".", "p", "d", "f">>

NullFile == [present |-> FALSE, name |-> <<>>]
FileOf(n) == [present |-> TRUE, name |-> n]
\* what the user can drop or choose: nothing (files?.[0] undefined) or a file
PickInputs == {NullFile, FileOf(NameHtml), FileOf(NamePdf)}

Lower(c) ==
  CASE c = "H" -> "h" [] c = "T" -> "t" [] c = "M" -> "m" [] c = "L" -> "l"
    [] c = "X" -> "x" [] OTHER -> c

LowerName(n) == [i \in 1..Len(n) |-> Lower(n[i])]

EndsWith(n, suf) ==
  /\ Len(n) >= Len(suf)
  /\ \A i \in 1..Len(suf) : n[Len(n) - Len(suf) + i] = suf[i]

\* (a pattern without the i flag)
ExtensionMatchesCaseSensitive(n) ==
  \/ EndsWith(n, <<".", "h", "t", "m">>)
  \/ EndsWith(n, <<".", "h", "t", "m", "l">>)
  \/ EndsWith(n, <<".", "x", "m", "l">>)
\* /\.(html?|xml)$/i.test(name)
ExtensionMatches(n) ==
  \/ EndsWith(LowerName(n), <<".", "h", "t", "m">>)
  \/ EndsWith(LowerName(n), <<".", "h", "t", "m", "l">>)
  \/ EndsWith(LowerName(n), <<".", "x", "m", "l">>)

isAllowed(f) == f.present /\ ExtensionMatches(f.name)

\* --------------------------------------------------------------- values
Null == "null"
StatusValues == {"PENDING", "RUNNING", "COMPLETED", "FAILED"}
NoJob == 0
NoUrl == 0
NoData == 0

PickError == "Only .html or .xml files are accepted."
NoFileError == "Please select a .html or .xml file."
CreateError == "Failed to create job"
StartError == "Failed to start job"
UnexpectedError == "Unexpected error"
\* e.message of what a rejected fetch or a failed res.json() throws
NetworkMessages == {"Failed to fetch", ""}
\* what put.text() gives for a refused upload ("": also when text() fails)
UploadBodies == {"", "quota exceeded"}
\* `Upload failed (${put.status}) ${text}`
UploadError(r, text) == "Upload failed (" \o ToString(r.code) \o ") " \o text

\* `${e.message || 'Unexpected error'}`
Surfaced(msg) == IF msg = "" THEN UnexpectedError ELSE msg

VARIABLES
  driver,      \* "live" or "sim": which App component is mounted
  recording,   \* which of the histories "ended", "last", "fetched" and "finals"
               \* are kept
  probe,       \* a call of isAllowed on its own: its argument and what it returned
  file,        \* useState file
  jobId,       \* useState jobId (NoJob = null)
  status,      \* useState status (Null = null)
  resultUrl,   \* useState resultUrl (NoUrl = null)
  resultData,  \* useState resultData (NoData = null; u = the payload read at u)
  error,       \* useState error (Null = null)
  busy,        \* useState busy
  progress,    \* useState progress (simulated driver)
  showConfetti,\* useState showConfetti (simulated driver)
  timers,      \* pending setTimeout handles of the simulated driver: <<s, kind>>
  intervals,   \* active setInterval handles of the simulated driver, with their k
  pollRef,     \* pollRef.current (0 = null): the handle beginPolling stored last
  polls,       \* active setInterval handles of the live driver
  pc,          \* where each start() invocation of the live driver is suspended
  queries,     \* per submission: is the query of beginPolling unanswered (imm),
               \* is at least one query of its interval unanswered (tick)
  fetches,     \* unanswered result fetches: [url, aborted]
  nsubs,       \* start() invocations so far
  log,         \* history, per submission: the requests start() sent, the answers
               \* it got ("create:200") and the delay, in order
  ended,       \* history: "cancelled" or "error" when cancelPolling or the catch
               \* block of start() ran since the last start(); "no" otherwise
  fetched,     \* history: how many fetches were sent to each result location
               \* (2: two or more)
  finals,      \* history: the jobs for which an answer that reported FAILED or a
               \* result location was processed
  last         \* history: when the task that ran last was the interval callback
               \* getting its answer, what the answer was; "late payload" when
               \* it was fetchResult getting the payload of a location that had
               \* been replaced or reset since; else "other"

env == <<driver, recording, probe>>
react == <<file, jobId, status, resultUrl, resultData, error, busy>>
simv == <<progress, showConfetti, timers, intervals>>
livev == <<pollRef, polls, pc, queries, fetches, log>>
vars == <<env, react, simv, livev, nsubs, ended, last, fetched, finals>>

NoQueries == [imm |-> FALSE, tick |-> FALSE]
NoProbe == [f |-> NullFile, returned |-> "none"]

\* A response: its HTTP status code (0: no response, the fetch or the reading
\* of the body threw), and for a status response of code 200 the body
\* {status, result_url?}.
Resp(c, st, u) == [code |-> c, status |-> st, url |-> u]
\* r.ok
Ok(r) == r.code >= 200 /\ r.code <= 299
\* the entry of the log for the answer r to a request
Answer(req, r) == req \o ":" \o ToString(r.code)

InitState ==
  /\ driver \in {"live", "sim"}
  /\ file = NullFile
  /\ jobId = NoJob
  /\ status = Null
  /\ resultUrl = NoUrl
  /\ resultData = NoData
  /\ error = Null
  /\ busy = FALSE
  /\ progress = 0
  /\ showConfetti = FALSE
  /\ timers = {}
  /\ intervals = {}
  /\ pollRef = 0
  /\ polls = {}
  /\ pc = [s \in Subs |-> "idle"]
  /\ queries = [s \in Subs |-> NoQueries]
  /\ fetches = {}
  /\ nsubs = 0
  /\ log = [s \in Subs |-> <<>>]
  /\ ended = "no"
  /\ last = "other"
  /\ fetched = [u \in Subs |-> 0]
  /\ finals = {}

\* ------------------------------------------------------------------ pick
\* pick(f), reached from onPick and onDrop; the drop zone is never disabled
\* (a pick that keeps a rejected file selected)
PickFileUnchecked(f) == f
PickFile(f) == IF ~isAllowed(f) THEN NullFile ELSE f

Pick(f) ==
  /\ error' = IF ~isAllowed(f) THEN PickError ELSE Null
  /\ file' = PickFile(f)
  /\ last' = "other"
  /\ UNCHANGED <<env, fetched, finals, ended, jobId, status, resultUrl, resultData, busy, simv, livev, nsubs>>

\* ------------------------------------------- the effect on [resultUrl]
\* The cleanup of the previous effect sets its `aborted`; the new effect
\* empties the payload and sends one fetch when the location is not null.
EffFetches(new) ==
  IF new = resultUrl THEN fetches
  ELSE {[url |-> f.url, aborted |-> TRUE] : f \in fetches}
         \cup (IF new = NoUrl THEN {} ELSE {[url |-> new, aborted |-> FALSE]})

\* the history `fetched`: the effect sends a fetch to the new location
EffFetched(new) ==
  IF "fetched" \in recording /\ new # resultUrl /\ new # NoUrl
    THEN [fetched EXCEPT ![new] = IF @ < 2 THEN @ + 1 ELSE 2]
    ELSE fetched

EffResultData(new) ==
  IF new = resultUrl \/ new = NoUrl THEN resultData ELSE NoData

\* =========================================================== live driver
\* The server names job_id after the submission that created it, and the
\* result location it reports for a job after the job.
\* The catch block of start(): lines 658-663
CatchError(msg) == Surfaced(msg)
\* (a catch block without setBusy(false))
CatchBusyKept == busy
CatchBusy == FALSE
CatchStatus == "FAILED"

Catch(s, msg) ==
  /\ error' = CatchError(msg)
  /\ busy' = CatchBusy
  /\ status' = CatchStatus
  /\ pc' = [pc EXCEPT ![s] = "done"]
  /\ ended' = IF "ended" \in recording THEN "error" ELSE ended

\* start(), up to its first await: lines 628-638
StartLive ==
  /\ driver = "live"
  /\ ~busy /\ file.present            \* the button: disabled={busy || !file}
  /\ nsubs < MaxSubs
  /\ nsubs' = nsubs + 1
  /\ resultUrl' = NoUrl
  /\ fetches' = EffFetches(NoUrl)
  /\ resultData' = EffResultData(NoUrl)
  /\ error' = IF ~file.present THEN NoFileError ELSE Null
  /\ ended' = IF ~file.present THEN ended ELSE "no"
  /\ IF ~file.present
       THEN UNCHANGED <<busy, pc, log>>
       ELSE /\ busy' = TRUE
            /\ pc' = [pc EXCEPT ![nsubs + 1] = "create"]
            /\ log' = [log EXCEPT ![nsubs + 1] = <<"POST /jobs">>]
  /\ last' = "other"
  /\ UNCHANGED <<env, fetched, finals, file, jobId, status, simv, pollRef, polls, queries>>

CreateResponses == {Resp(200, Null, FALSE), Resp(500, Null, FALSE), Resp(0, Null, FALSE)}

\* which answers let start() go on after each request
CreateSucceeded(r) == Ok(r)
UploadSucceeded(r) == Ok(r)
\* (a start() that takes any 2xx answer for an acceptance)
StartSucceededAnyOk(r) == Ok(r)
StartSucceeded(r) == r.code = Accepted

\* the detail in the body of a refused creation
CreateDetails == {"risk_profile is invalid", "filename is missing"}
\* line 639: the message thrown for a refused creation, whose body is not read
CreateFailure(detail) == CreateError

\* start(), from the answer to POST /jobs to the PUT: lines 639-647
\* (msg: the message of the exception when no answer came, r.code = 0;
\* detail: the detail in the body of the answer when it is a refusal)
CreateResp(s, r, detail, msg) ==
  /\ pc[s] = "create"
  /\ IF CreateSucceeded(r)
       THEN /\ jobId' = s
            /\ status' = "PENDING"
            /\ pc' = [pc EXCEPT ![s] = "upload"]
            /\ log' = [log EXCEPT ![s] = @ \o <<Answer("create", r), "PUT">>]
            /\ UNCHANGED <<error, busy, ended>>
       ELSE /\ Catch(s, IF r.code = 0 THEN msg ELSE CreateFailure(detail))
            /\ log' = [log EXCEPT ![s] = Append(@, Answer("create", r))]
            /\ UNCHANGED jobId
  /\ last' = "other"
  /\ UNCHANGED <<env, fetched, finals, file, resultUrl, resultData, simv, pollRef, polls, queries,
                 fetches, nsubs>>

UploadResponses == {Resp(200, Null, FALSE), Resp(500, Null, FALSE), Resp(0, Null, FALSE)}

\* start(), from the answer to the PUT to the grace delay: lines 648-653
UploadResp(s, r, text, msg) ==
  /\ pc[s] = "upload"
  /\ IF UploadSucceeded(r)
       THEN /\ pc' = [pc EXCEPT ![s] = "grace"]
            /\ log' = [log EXCEPT ![s] = @ \o <<Answer("upload", r), "delay">>]
            /\ UNCHANGED <<error, busy, status, ended>>
       ELSE /\ Catch(s, IF r.code = 0 THEN msg ELSE UploadError(r, text))
            /\ log' = [log EXCEPT ![s] = Append(@, Answer("upload", r))]
  /\ last' = "other"
  /\ UNCHANGED <<env, fetched, finals, file, jobId, resultUrl, resultData, simv, pollRef, polls,
                 queries, fetches, nsubs>>

\* the 800 ms timer of line 653 fires and start() sends POST /jobs/{id}/start
GraceElapsed(s) ==
  /\ pc[s] = "grace"
  /\ pc' = [pc EXCEPT ![s] = "startreq"]
  /\ log' = [log EXCEPT ![s] = @ \o <<"delay elapsed", "POST start">>]
  /\ last' = "other"
  /\ UNCHANGED <<env, fetched, finals, ended, react, simv, pollRef, polls, queries, fetches, nsubs>>

StartResponses ==
  {Resp(Accepted, Null, FALSE), Resp(200, Null, FALSE), Resp(500, Null, FALSE),
   Resp(0, Null, FALSE)}

\* (a beginPolling that does not clear the stored interval)
BeginPollingKeeps(s) == polls \cup {s}
\* beginPolling(id): lines 666-679
BeginPollingPolls(s) == (polls \ {pollRef}) \cup {s}

\* start(), from the answer to the start request on: lines 655-657, 666-679
\* (msg: the message of the exception when no answer came, r.code = 0)
StartResp(s, r, msg) ==
  /\ pc[s] = "startreq"
  /\ IF StartSucceeded(r)
       THEN /\ status' = "RUNNING"
            /\ polls' = BeginPollingPolls(s)
            /\ queries' = [queries EXCEPT ![s].imm = TRUE]
            /\ pollRef' = s
            /\ pc' = [pc EXCEPT ![s] = "done"]
            /\ log' = [log EXCEPT ![s] = @ \o <<Answer("start", r), "GET status">>]
            /\ UNCHANGED <<error, busy, ended>>
       ELSE /\ Catch(s, IF r.code = 0 THEN msg ELSE StartError)
            /\ log' = [log EXCEPT ![s] = Append(@, Answer("start", r))]
            /\ UNCHANGED <<polls, queries, pollRef>>
  /\ last' = "other"
  /\ UNCHANGED <<env, fetched, finals, file, jobId, resultUrl, resultData, simv, fetches, nsubs>>

\* the interval callback of line 669 starts: it sends one status query.  The
\* interval fires whether or not earlier queries were answered, so any number
\* of them can be unanswered; the model keeps whether there is one.
Tick(h) ==
  /\ h \in polls
  /\ queries' = [queries EXCEPT ![h].tick = TRUE]
  /\ last' = "other"
  /\ UNCHANGED <<env, fetched, finals, ended, react, simv, pollRef, polls, pc, fetches, log, nsubs>>

StatusResponses ==
  {Resp(200, st, u) : st \in StatusValues, u \in BOOLEAN}
    \cup {Resp(NotFound, Null, FALSE), Resp(500, Null, FALSE), Resp(0, Null, FALSE)}

\* (a getJob that tests r.ok before the 404)
GetJobThrowsOnNotFound(r) == IF r.code = 0 \/ ~Ok(r) THEN "threw" ELSE "data"
\* getJob(id): lines 615-626: it returns null, throws, or returns the body
GetJobReturns(r) ==
  IF r.code = NotFound THEN "null" ELSE IF r.code = 0 \/ ~Ok(r) THEN "threw" ELSE "data"

GetJobStatus(r) == IF GetJobReturns(r) = "data" THEN r.status ELSE status

GetJobResultUrl(s, r) ==
  IF GetJobReturns(r) = "data" /\ r.url THEN s ELSE resultUrl

\* (an interval callback that gives up when getJob throws)
TickStopsWhenThrown(r) ==
  \/ GetJobReturns(r) \in {"null", "threw"}
  \/ GetJobReturns(r) = "data" /\ (r.url \/ r.status = "FAILED")
\* the entry of the history `last` for a tick answered r
Outcome(r) ==
  IF r.code = NotFound THEN "404"
  ELSE IF r.code = 0 \/ ~Ok(r) THEN "failed"
  ELSE IF r.url THEN "data, result"
  ELSE "data"

\* (an interval callback that does not look at the status)
TickStopsOnResultOnly(r) ==
  \/ GetJobReturns(r) = "null"
  \/ GetJobReturns(r) = "data" /\ r.url
\* the answer is a body that reports FAILED or a result location
ReportsFinal(r) == GetJobReturns(r) = "data" /\ (r.url \/ r.status = "FAILED")

\* the interval callback after its await: lines 672-676
TickStops(r) ==
  \/ GetJobReturns(r) = "null"
  \/ GetJobReturns(r) = "data" /\ (r.url \/ r.status = "FAILED")

TickPolls(r) == IF TickStops(r) THEN polls \ {pollRef} ELSE polls
TickBusy(r) == IF TickStops(r) THEN FALSE ELSE busy

\* a status query of submission s is answered (kind "imm": the query of line
\* 668; "tick": a query of the interval callback; more: other queries of the
\* interval stay unanswered)
StatusResp(s, kind, r, more) ==
  /\ IF kind = "imm"
       THEN /\ queries[s].imm
            /\ queries' = [queries EXCEPT ![s].imm = FALSE]
            /\ UNCHANGED <<polls, busy>>
       ELSE /\ queries[s].tick
            /\ queries' = [queries EXCEPT ![s].tick = more]
            /\ polls' = TickPolls(r)
            /\ busy' = TickBusy(r)
  /\ status' = GetJobStatus(r)
  /\ resultUrl' = GetJobResultUrl(s, r)
  /\ fetches' = EffFetches(GetJobResultUrl(s, r))
  /\ resultData' = EffResultData(GetJobResultUrl(s, r))
  /\ last' = IF "last" \in recording /\ kind = "tick" THEN Outcome(r) ELSE "other"
  /\ fetched' = EffFetched(GetJobResultUrl(s, r))
  /\ finals' = IF "finals" \in recording /\ ReportsFinal(r) THEN finals \cup {s} ELSE finals
  /\ UNCHANGED <<env, ended, file, jobId, error, simv, pollRef, pc, log, nsubs>>

\* (a fetchResult that does not test r.ok)
FetchResultDataUnchecked(f, ok) == IF ~f.aborted THEN f.url ELSE resultData
\* (a fetchResult that does not test `aborted`)
FetchResultDataLate(f, ok) == IF ok THEN f.url ELSE resultData
\* fetchResult(u): lines 687-690 (ok: the response is a success and parses)
FetchResultData(f, ok) == IF ok /\ ~f.aborted THEN f.url ELSE resultData

\* fetchResult(u) after its awaits: lines 687-693
FetchResp(f, ok) ==
  /\ f \in fetches
  /\ fetches' = fetches \ {f}
  /\ resultData' = FetchResultData(f, ok)
  /\ last' = IF "fetched" \in recording /\ ok /\ f.aborted THEN "late payload" ELSE "other"
  /\ UNCHANGED <<env, fetched, finals, ended, file, jobId, status, resultUrl, error, busy, simv, pollRef,
                 polls, pc, queries, log, nsubs>>

\* cancelPolling(): line 681; the Cancel button is rendered while busy
CancelLivePolls == polls \ {pollRef}
\* (a cancelPolling that marks the job FAILED)
CancelLiveStatusFailed == "FAILED"
\* cancelPolling() has no setStatus
CancelLiveStatus == status

CancelLive ==
  /\ driver = "live"
  /\ busy
  /\ polls' = CancelLivePolls
  /\ busy' = FALSE
  /\ status' = CancelLiveStatus
  /\ ended' = IF "ended" \in recording THEN "cancelled" ELSE ended
  /\ last' = "other"
  /\ UNCHANGED <<env, fetched, finals, file, jobId, resultUrl, resultData, error, simv,
                 pollRef, pc, queries, fetches, log, nsubs>>

NextLive ==
  \/ StartLive
  \/ \E s \in Subs, r \in CreateResponses, d \in CreateDetails, m \in NetworkMessages :
       CreateResp(s, r, d, m)
  \/ \E s \in Subs, r \in UploadResponses, b \in UploadBodies, m \in NetworkMessages :
       UploadResp(s, r, b, m)
  \/ \E s \in Subs : GraceElapsed(s)
  \/ \E s \in Subs, r \in StartResponses, m \in NetworkMessages : StartResp(s, r, m)
  \/ \E h \in Subs : Tick(h)
  \/ \E s \in Subs, k \in {"imm", "tick"}, r \in StatusResponses, more \in BOOLEAN :
       /\ (k = "imm") => ~more
       /\ StatusResp(s, k, r, more)
  \/ \E f \in fetches, ok \in BOOLEAN : FetchResp(f, ok)
  \/ CancelLive


\* ====================================================== simulated driver
\* Math.floor((totalMs - 900) / tickMs): line 330
ticks == (totalMs - toRunningMs) \div tickMs

\* Math.round(x / y) for x, y > 0
RoundDiv(x, y) == (2 * x + y) \div (2 * y)

Min(a, b) == IF a < b THEN a ELSE b

\* (a pct without Math.min)
PctUncapped(k) == RoundDiv(k * progressCap, ticks)
\* Math.min(96, Math.round((k / ticks) * 96)): line 334
Pct(k) == Min(progressCap, RoundDiv(k * progressCap, ticks))

\* the interval fires every tickMs and is cleared by the timer of totalMs
MaxTicks == totalMs \div tickMs

\* (a clearTimers that clears the intervals only)
ClearTimersTimersKept == timers
\* clearTimers(): lines 304-309
ClearTimersTimers == {}
ClearTimersIntervals == {}

\* start(): lines 311-364
StartSim ==
  /\ driver = "sim"
  /\ ~busy /\ file.present            \* the button: disabled={busy || !file}
  /\ nsubs < MaxSubs
  /\ nsubs' = nsubs + 1
  /\ resultUrl' = NoUrl
  /\ resultData' = NoData
  /\ showConfetti' = FALSE
  /\ progress' = 0
  /\ error' = IF ~file.present THEN NoFileError ELSE Null
  /\ ended' = IF ~file.present THEN ended ELSE "no"
  /\ IF ~file.present
       THEN UNCHANGED <<busy, status, jobId, timers, intervals>>
       ELSE /\ busy' = TRUE
            /\ status' = "PENDING"
            /\ jobId' = nsubs + 1
            /\ timers' = timers \cup {<<nsubs + 1, "toRunning">>, <<nsubs + 1, "toComplete">>}
            /\ intervals' = intervals \cup {[id |-> nsubs + 1, k |-> 0]}
  /\ last' = "other"
  /\ UNCHANGED <<env, fetched, finals, file, livev>>

\* the timer of line 326
ToRunning(s) ==
  /\ <<s, "toRunning">> \in timers
  /\ timers' = timers \ {<<s, "toRunning">>}
  /\ status' = "RUNNING"
  /\ last' = "other"
  /\ UNCHANGED <<env, fetched, finals, ended, file, jobId, resultUrl, resultData, error, busy, progress,
                 showConfetti, intervals, livev, nsubs>>

\* the interval callback of lines 332-336
ProgressTick(i) ==
  /\ i \in intervals
  /\ i.k < MaxTicks
  /\ intervals' = (intervals \ {i}) \cup {[id |-> i.id, k |-> i.k + 1]}
  /\ progress' = Pct(i.k + 1)
  /\ last' = "other"
  /\ UNCHANGED <<env, fetched, finals, ended, react, showConfetti, timers, livev, nsubs>>

\* (a completion that leaves the progress interval running)
ToCompleteIntervalsKept == intervals
\* lines 339-340
ToCompleteIntervals == {}

\* the timer of lines 338-357; a timer set for 9000 ms by the same task runs
\* after the one set for 900 ms
ToComplete(s) ==
  /\ <<s, "toComplete">> \in timers
  /\ <<s, "toRunning">> \notin timers
  /\ intervals' = ToCompleteIntervals
  /\ progress' = progressDone
  /\ resultData' = s
  /\ resultUrl' = s
  /\ status' = "COMPLETED"
  /\ busy' = FALSE
  /\ showConfetti' = TRUE
  /\ timers' = (timers \ {<<s, "toComplete">>}) \cup {<<s, "confetti">>}
  /\ last' = "other"
  /\ UNCHANGED <<env, fetched, finals, ended, file, jobId, error, livev, nsubs>>

\* the timer of line 355
ConfettiOff(s) ==
  /\ <<s, "confetti">> \in timers
  /\ timers' = timers \ {<<s, "confetti">>}
  /\ showConfetti' = FALSE
  /\ last' = "other"
  /\ UNCHANGED <<env, fetched, finals, ended, react, progress, intervals, livev, nsubs>>

\* cancelPolling(): lines 366-369; the Cancel button is rendered while busy
CancelSim ==
  /\ driver = "sim"
  /\ busy
  /\ timers' = ClearTimersTimers
  /\ intervals' = ClearTimersIntervals
  /\ busy' = FALSE
  /\ ended' = IF "ended" \in recording THEN "cancelled" ELSE ended
  /\ last' = "other"
  /\ UNCHANGED <<env, fetched, finals, file, jobId, status, resultUrl, resultData, error, progress,
                 showConfetti, livev, nsubs>>

NextSim ==
  \/ StartSim
  \/ \E s \in Subs : ToRunning(s)
  \/ \E i \in intervals : ProgressTick(i)
  \/ \E s \in Subs : ToComplete(s)
  \/ \E s \in Subs : ConfettiOff(s)
  \/ CancelSim

Next ==
  \/ \E f \in PickInputs : Pick(f)
  \/ NextLive
  \/ NextSim

Init == InitState /\ recording = {} /\ probe = NoProbe
Spec == Init /\ [][Next]_vars

\* the same program, with the history `ended` kept
InitE == InitState /\ recording = {"ended"} /\ probe = NoProbe
SpecE == InitE /\ [][Next]_vars

\* the same program, with the history `last` kept
InitL == InitState /\ recording = {"last"} /\ probe = NoProbe

\* the same program, with the history `fetched` kept
InitF == InitState /\ recording = {"fetched"} /\ probe = NoProbe
SpecF == InitF /\ [][Next]_vars

\* the simulated driver alone, with its timers firing: a timer that is set
\* and not cleared runs
InitSim == Init /\ driver = "sim"
NextSimOnly ==
  \/ \E f \in PickInputs : Pick(f)
  \/ NextSim
SimFairness ==
  \A s \in Subs : WF_vars(ToRunning(s)) /\ WF_vars(ToComplete(s))
SpecSim == InitSim /\ [][NextSimOnly]_vars /\ SimFairness

\* one submission of the live driver that is not cancelled, with the
\* histories `last` and `finals`: the interval fires as long as it is active, and a status query
\* that is sent gets its answer or its failure
InitPoll ==
  InitState /\ recording = {"last", "finals"} /\ probe = NoProbe /\ driver = "live"
NextPoll ==
  \/ \E f \in PickInputs : Pick(f)
  \/ nsubs = 0 /\ StartLive
  \/ \E r \in CreateResponses, d \in CreateDetails, m \in NetworkMessages :
       CreateResp(1, r, d, m)
  \/ \E r \in UploadResponses, b \in UploadBodies, m \in NetworkMessages :
       UploadResp(1, r, b, m)
  \/ GraceElapsed(1)
  \/ \E r \in StartResponses, m \in NetworkMessages : StartResp(1, r, m)
  \/ Tick(1)
  \/ \E k \in {"imm", "tick"}, r \in StatusResponses, more \in BOOLEAN :
       /\ (k = "imm") => ~more
       /\ StatusResp(1, k, r, more)
  \/ \E f \in fetches, ok \in BOOLEAN : FetchResp(f, ok)
TickAnswered == \E r \in StatusResponses, more \in BOOLEAN : StatusResp(1, "tick", r, more)
PollFairness == WF_vars(Tick(1)) /\ WF_vars(TickAnswered)
SpecPoll == InitPoll /\ [][NextPoll]_vars /\ PollFairness

\* ------------------------------------------------ isAllowed on its own
\* file names of at most MaxNameLen characters over Alphabet
Alphabet == {".", "h", "t", "m", "l", "x", "M", "a"}
Names == UNION {[1..n -> Alphabet] : n \in 0..MaxNameLen}
ValidatorInputs == {NullFile} \cup {FileOf(n) : n \in Names}

\* isAllowed(f) is called and returns
CallIsAllowed ==
  /\ probe.returned = "pending"
  /\ probe' = [probe EXCEPT !.returned = IF isAllowed(probe.f) THEN "true" ELSE "false"]
  /\ UNCHANGED <<driver, recording, react, simv, livev, nsubs, ended, last, fetched,
                 finals>>

InitV ==
  /\ InitState /\ recording = {}
  /\ probe \in {[f |-> f, returned |-> "pending"] : f \in ValidatorInputs}
NextV == CallIsAllowed
SpecV == InitV /\ [][NextV]_vars
SpecL == InitL /\ [][Next]_vars

\* ================================================================ claims
\* what a step did, read from the two states of the step
JobCreated ==
  \/ \E s \in Subs : pc[s] = "create" /\ pc'[s] = "upload"
  \/ driver = "sim" /\ nsubs' = nsubs + 1

StartAccepted ==
  \/ \E s \in Subs : pc[s] = "startreq" /\ pc'[s] = "done" /\ queries'[s].imm
  \/ \E s \in Subs : <<s, "toRunning">> \in timers /\ <<s, "toRunning">> \notin timers'

PollResult ==
  \/ pc' = pc /\ \E s \in Subs : queries'[s] # queries[s]
  \/ \E s \in Subs : <<s, "toComplete">> \in timers /\ <<s, "toComplete">> \notin timers'

PipelineError ==
  \E s \in Subs : pc[s] \in {"create", "upload", "startreq"} /\ pc'[s] = "done"
                    /\ ~queries'[s].imm

QueryDispatched ==
  \E s \in Subs : \/ ~queries[s].imm /\ queries'[s].imm
                  \/ ~queries[s].tick /\ queries'[s].tick

Terminal == {"COMPLETED", "FAILED"}

\* C1: every change of status follows the graph of the job state machine: job
\* creation gives PENDING, PENDING goes to RUNNING on start accepted, RUNNING
\* goes to COMPLETED or FAILED on a poll result, any state goes to FAILED on a
\* submission, upload or start error, and nothing else changes status (so
\* COMPLETED and FAILED are left only by the creation of another job).
C1_StatusFollowsGraph ==
  [][status' # status =>
       \/ JobCreated /\ status' = "PENDING"
       \/ StartAccepted /\ status = "PENDING" /\ status' = "RUNNING"
       \/ PollResult /\ status = "RUNNING" /\ status' \in Terminal
       \/ PipelineError /\ status' = "FAILED"]_vars

\* C2: in every reachable state the result location is set if and only if
\* status is COMPLETED.
C2_ResultIffCompleted == (resultUrl # NoUrl) <=> (status = "COMPLETED")

\* C3: within one submission of the live driver the requests are ordered: the
\* upload is sent only after the creation request was answered with success,
\* the start request only after the upload was answered with success and the
\* grace delay elapsed, and status queries only after the start request was
\* answered 202.
Precedes(l, a, b) ==
  \A i \in 1..Len(l) : l[i] = b => \E j \in 1..(i - 1) : l[j] = a

Logged(s, e) == \E i \in 1..Len(log[s]) : log[s][i] = e

C3_RequestsOrdered ==
  \A s \in Subs :
    /\ Precedes(log[s], "POST /jobs", "create:200")
    /\ Precedes(log[s], "create:200", "PUT")
    /\ Precedes(log[s], "upload:200", "delay")
    /\ Precedes(log[s], "delay", "delay elapsed")
    /\ Precedes(log[s], "delay elapsed", "POST start")
    /\ Precedes(log[s], "start:202", "GET status")
    /\ (queries[s].imm \/ queries[s].tick \/ s \in polls) => Logged(s, "start:202")
    /\ pc[s] = "upload" => Logged(s, "create:200")
    /\ pc[s] = "startreq" => Logged(s, "upload:200") /\ Logged(s, "delay elapsed")

C3_Witness == \E s \in Subs : Logged(s, "GET status") /\ queries[s].tick

\* C4: after cancelPolling, no status query is dispatched until the next
\* start().
C4_NoQueryAfterCancel ==
  [][ended = "cancelled" /\ ended' = "cancelled" => ~QueryDispatched]_vars

\* C5: right after cancelPolling the busy flag is false and no delay, timer or
\* interval of the current submission is pending.
C5_CancelClearsAll ==
  [][CancelLive \/ CancelSim =>
       /\ ~busy'
       /\ polls' = {} /\ timers' = {} /\ intervals' = {}
       /\ nsubs > 0 => pc'[nsubs] # "grace"]_vars

\* C6: at most one polling interval is active at any time, and it is the one
\* whose handle pollRef holds: beginPolling clears the stored handle before it
\* creates an interval.
C6_AtMostOnePoll == Cardinality(polls) <= 1 /\ polls \subseteq {pollRef}

\* The second submission began polling, and the first one after it, while the
\* interval of the second was active (busy was set by the second start() and
\* whatever stops an interval clears it): one interval is left, the newest.
C6_Witness ==
  /\ nsubs = 2 /\ busy
  /\ Logged(1, "GET status") /\ Logged(2, "GET status")
  /\ pollRef = 1 /\ polls = {1}

\* C7: a tick whose query is answered with status COMPLETED or
\* FAILED, or with 404, stops the polling interval and clears the busy flag.
C7_TickStopsOnTerminal ==
  (last = "404" \/ (last \in {"data", "data, result"} /\ status \in Terminal))
    => polls = {} /\ ~busy

\* C8: a tick whose status query fails (no answer, or an answer that is
\* neither a success nor 404) changes nothing: status, result location,
\* payload, error and busy flag stay, and the interval stays active.
C8_FailedQueryChangesNothing ==
  [][last' = "failed"
       => UNCHANGED <<status, resultUrl, resultData, error, busy, polls, pollRef,
                      fetches>>]_vars

\* a tick of the active interval got a failure and the interval is still active
C8_Witness == last = "failed" /\ busy /\ polls = {pollRef} /\ status = "RUNNING"

\* C9: a tick answered 404 stops the polling interval and clears the busy
\* flag, sets no error and leaves status as it was.
C9_NotFoundHalts ==
  [][last' = "404"
       => polls' = {} /\ ~busy' /\ UNCHANGED <<status, error, resultUrl>>]_vars

\* a tick of the only submission was answered 404
C9_Witness ==
  /\ last = "404" /\ status = "RUNNING" /\ error = Null
  /\ nsubs = 1 /\ polls = {} /\ ~busy

\* C10: a creation or upload request answered without success, or a start
\* request answered with another code than 202, sets a non-empty error, clears
\* the busy flag and sets status FAILED.
RefusedAnswers == {"create:500", "upload:500", "start:200", "start:500"}

Refused(s) ==
  /\ Len(log'[s]) = Len(log[s]) + 1
  /\ log'[s][Len(log'[s])] \in RefusedAnswers

C10_RefusalFails ==
  [][\A s \in Subs :
       Refused(s) => error' \notin {Null, ""} /\ ~busy' /\ status' = "FAILED"]_vars

\* the start request was answered 200, which is not the accepted code
C10_Witness ==
  /\ Logged(1, "start:200") /\ nsubs = 1
  /\ status = "FAILED" /\ error = StartError /\ ~busy

\* C11: once the current submission has failed in its creation, upload or
\* start step and status is FAILED, no status query is dispatched and status
\* stays FAILED until the next start().
FailedAnswers ==
  {"create:500", "create:0", "upload:500", "upload:0", "start:200", "start:500",
   "start:0"}

SubmissionFailed ==
  /\ nsubs > 0
  /\ Len(log[nsubs]) > 0
  /\ log[nsubs][Len(log[nsubs])] \in FailedAnswers

C11_FailedStaysFailed ==
  [][SubmissionFailed /\ status = "FAILED" /\ nsubs' = nsubs
       => ~QueryDispatched /\ status' = "FAILED"]_vars

\* C12: when start() begins a submission, the only timers, delays and
\* intervals pending after that step are the ones the new submission created:
\* whatever earlier submissions left was cancelled.
SubmissionBegins == nsubs' = nsubs + 1

C12_StartCancelsLeftovers ==
  [][SubmissionBegins =>
       /\ \A h \in timers' : h[1] = nsubs'
       /\ \A i \in intervals' : i.id = nsubs'
       /\ polls' = {}
       /\ \A s \in Subs : pc'[s] # "grace"]_vars

\* C13: a status answer or a timer callback of an earlier submission changes
\* neither status, result location nor busy flag while a later submission is
\* current, and does not clear the polling interval of the later one.
\* (the step in which the query of beginPolling, or the last unanswered query
\* of the interval, of submission s gets its answer)
StatusAnswered(s) ==
  /\ pc' = pc
  /\ \/ queries[s].imm /\ ~queries'[s].imm
     \/ queries[s].tick /\ ~queries'[s].tick

\* (a timer of submission s ran: cancelPolling, which also removes timers,
\* clears the busy flag and sets no timer)
TimerFired(s) ==
  \E h \in timers \ timers' :
    h[1] = s /\ (busy' = busy \/ <<s, "confetti">> \in timers' \ timers)

C13_SubmissionsIsolated ==
  [][\A s \in Subs :
       s < nsubs /\ (StatusAnswered(s) \/ TimerFired(s))
         => /\ UNCHANGED <<status, resultUrl, busy>>
            /\ nsubs \in polls => nsubs \in polls']_vars

\* C14: when the creation request of a submission is refused, the job id is
\* empty after the handling of that answer, and nothing more is sent for that
\* submission: no upload, no start request, no status query.
CreateRefused(s) ==
  /\ Len(log'[s]) = Len(log[s]) + 1
  /\ log'[s][Len(log'[s])] = "create:500"

C14_FailedCreationLeavesNoJob ==
  [][\A s \in Subs :
       /\ CreateRefused(s) => jobId' = NoJob
       /\ Logged(s, "create:500")
            => log'[s] = log[s] /\ ~queries'[s].imm /\ ~queries'[s].tick]_vars

\* C15: the selected file is always empty or a file that passed validation,
\* start() begins a submission (creation request, or job id in the simulated
\* driver) only with such a file, and a rejected pick leaves no selected
\* file and sets the error "Only .html or .xml files are accepted.".
C15_ValidationGatesSubmission ==
  [][/\ file'.present => isAllowed(file')
     /\ SubmissionBegins => isAllowed(file)
     /\ \A f \in PickInputs :
          Pick(f) /\ ~isAllowed(f) => file' = NullFile /\ error' = PickError]_vars

\* after a submission with an accepted file, a rejected pick emptied the
\* selection
C15_Witness == error = PickError /\ file = NullFile /\ nsubs = 1 /\ ~busy

\* C16: isAllowed returns true exactly for a file whose name ends in .htm,
\* .html or .xml, in any mix of upper and lower case, and false for a missing
\* file.
AcceptedEndings ==
  {<<{"."}, {"h", "H"}, {"t", "T"}, {"m", "M"}>>,
   <<{"."}, {"h", "H"}, {"t", "T"}, {"m", "M"}, {"l", "L"}>>,
   <<{"."}, {"x", "X"}, {"m", "M"}, {"l", "L"}>>}

EndsIn(n, e) ==
  /\ Len(n) >= Len(e)
  /\ \A i \in 1..Len(e) : n[Len(n) - Len(e) + i] \in e[i]

C16_AcceptsExactlyTheEndings ==
  probe.returned \in {"true", "false"}
    => (probe.returned = "true"
          <=> (probe.f.present /\ \E e \in AcceptedEndings : EndsIn(probe.f.name, e)))

\* isAllowed returned true for a.xMl
C16_Witness == probe.returned = "true" /\ probe.f = FileOf(<<"a", ".", "x", "M", "l">>)

\* C17: no result location is fetched twice.
C17_FetchedAtMostOnce == \A u \in Subs : fetched[u] <= 1

\* C18: a result fetch is sent only in a step that ends with status
\* COMPLETED and a result location, the step of the status answer that
\* reported both; none is sent while status is PENDING or RUNNING.
FetchDispatched == \E f \in fetches' \ fetches : ~f.aborted

C18_FetchOnlyWhenCompleted ==
  [][FetchDispatched => status' = "COMPLETED" /\ resultUrl' # NoUrl]_vars

\* C19: a result fetch that gets a refusal or a body that does not parse
\* changes nothing of the job: status, busy flag, error, result location and
\* payload stay as they were; when it is the fetch of the present result
\* location, that location is still set and the payload is empty.
C19_FailedFetchChangesNothing ==
  [][\A f \in fetches :
       FetchResp(f, FALSE)
         => /\ UNCHANGED <<status, busy, error, resultUrl, resultData, jobId>>
            /\ ~f.aborted => resultUrl' = f.url /\ resultData' = NoData]_vars

\* the only fetch of the only submission failed
C19_Witness ==
  /\ nsubs = 1 /\ resultUrl = 1 /\ status = "COMPLETED"
  /\ fetches = {} /\ resultData = NoData /\ error = Null

\* C20: in the simulated driver, while one job is current, progress never
\* decreases; it is at most 96 in every state where status is not COMPLETED;
\* and it becomes 100 only in the step that sets status COMPLETED.
C20_ProgressMonotone ==
  [][driver = "sim" =>
       /\ nsubs' = nsubs => progress' >= progress
       /\ status' # "COMPLETED" => progress' <= progressCap
       /\ progress' <= progressDone
       /\ (progress' = progressDone /\ progress # progressDone)
            => status # "COMPLETED" /\ status' = "COMPLETED"]_vars

\* the second job completed with progress 100, after start() had reset the
\* progress of the first
C20_Witness ==
  driver = "sim" /\ nsubs = 2 /\ progress = progressDone /\ status = "COMPLETED"

\* C21: in the simulated driver a submission that is not cancelled reaches
\* COMPLETED, with progress 100, payload and result location set, busy false
\* and no progress interval active; status becomes RUNNING only from PENDING
\* and COMPLETED only from RUNNING.
SimCompleted(s) ==
  /\ nsubs = s /\ status = "COMPLETED" /\ ~busy
  /\ progress = progressDone /\ resultData # NoData /\ resultUrl # NoUrl
  /\ intervals = {}

\* (in the simulated driver only cancelPolling clears busy without COMPLETED)
SimCancelled(s) == nsubs = s /\ ~busy /\ status # "COMPLETED"

C21_SimReachesCompleted ==
  /\ \A s \in Subs : (nsubs = s /\ busy) ~> (SimCompleted(s) \/ SimCancelled(s))
  /\ [][/\ (status' = "RUNNING" /\ status # "RUNNING") => status = "PENDING"
        /\ (status' = "COMPLETED" /\ status # "COMPLETED") => status = "RUNNING"]_vars

\* the second submission completed
C21_Witness == SimCompleted(2)

\* C22: every sequence of observable states (status, busy, result location
\* set, payload set) of the simulated driver is one the live driver can
\* produce: so each observable step of the simulated driver is a step the
\* live driver can take.  Two things are true of every step of the live
\* driver (C22_LiveSide): busy turns true with status unchanged (start() sets
\* it before its first request is answered), and the payload turns from
\* empty to set in a step of its own, with the result location set before
\* (the answer to the fetch).
StepOfLive ==
  /\ (~busy /\ busy') => status' = status
  /\ (resultData = NoData /\ resultData' # NoData)
       => resultUrl # NoUrl /\ UNCHANGED <<status, busy, resultUrl>>

C22_LiveSide == [][driver = "live" => StepOfLive]_vars

C22_SimStepsAreLiveSteps == [][driver = "sim" => StepOfLive]_vars

\* C23: the error surfaced for a refused creation carries the detail of the
\* response: the error set for one detail differs from the message another
\* detail gives.
C23_CreateErrorCarriesDetail ==
  [][\A s \in Subs, d1 \in CreateDetails, d2 \in CreateDetails :
       (d1 # d2 /\ CreateResp(s, Resp(500, Null, FALSE), d1, ""))
         => error' # CreateFailure(d2)]_vars

\* C24: the step of cancelPolling, in either driver, leaves status, job id,
\* result location, payload, error, progress and selected file unchanged.
C24_CancelFrame ==
  [][CancelLive \/ CancelSim
       => UNCHANGED <<status, jobId, resultUrl, resultData, error, progress, file>>]_vars

\* the simulated job was cancelled while RUNNING, with progress at 96 (only
\* cancelPolling clears busy there without COMPLETED)
C24_Witness ==
  /\ driver = "sim" /\ status = "RUNNING" /\ ~busy
  /\ progress = progressCap /\ timers = {} /\ intervals = {}

\* C25: in the live driver busy is true whenever a submission has work
\* pending (a creation, upload or start request unanswered, the grace delay
\* running, or the polling interval active), and at most one submission is
\* in its pipeline.
InPipeline(s) == pc[s] \in {"create", "upload", "grace", "startreq"}

C25_BusyWhileWorkPending ==
  driver = "live" =>
    /\ ((\E s \in Subs : InPipeline(s)) \/ polls # {}) => busy
    /\ Cardinality({s \in Subs : InPipeline(s)}) <= 1

\* C26: in the live driver, whenever the payload is not empty the result
\* location is set and the payload is the one read at that location.
C26_PayloadOfCurrentLocation ==
  (driver = "live" /\ resultData # NoData)
    => resultUrl # NoUrl /\ resultData = resultUrl

\* C27: the payload a fetch brings is written only while the result location
\* is still the one the fetch was sent for: a payload that arrives after the
\* location was reset or replaced is discarded, and every payload written is
\* the one of the present location.
C27_LatePayloadDiscarded ==
  [][/\ last' = "late payload" => resultData' = resultData
     /\ (driver = "live" /\ resultData' # resultData /\ resultData' # NoData)
          => resultData' = resultUrl /\ resultUrl' = resultUrl]_vars

\* the payload of a replaced location arrived after the payload of the
\* present one and did not overwrite it
C27_Witness ==
  last = "late payload" /\ resultUrl # NoUrl /\ resultData = resultUrl

\* C28: for one submission of the live driver that is not cancelled and whose
\* start was accepted: if from some point on every answer a tick gets is a
\* success that reports FAILED or a result location, then the polling
\* interval is eventually cleared with busy false; and once they are so they
\* stay so.
TickAnswerNotFinal ==
  \/ last = "failed"
  \/ last = "404"
  \/ last = "data" /\ status # "FAILED"

PollingStopped == polls = {} /\ ~busy

C28_PollingEventuallyStops ==
  /\ (<>[](~TickAnswerNotFinal)) => ((polls # {}) ~> PollingStopped)
  /\ [][(Logged(1, "start:202") /\ PollingStopped) => PollingStopped']_vars

\* the interval of the submission was stopped by a tick that reported FAILED
C28_Witness ==
  last = "data" /\ status = "FAILED" /\ Logged(1, "start:202") /\ PollingStopped

\* C29: once an answer that reports FAILED or a result location was processed
\* for a job, be it the answer to the query beginPolling sends at once or to
\* a query of the interval, no status query is dispatched for that job.
C29_NoQueryAfterFinalAnswer ==
  [][\A s \in finals :
       ~(~queries[s].imm /\ queries'[s].imm) /\ ~(~queries[s].tick /\ queries'[s].tick)]_vars

\* C30: in the simulated driver cancelPolling leaves no timer and no interval
\* pending, so from the cancel to the next start() (busy false) status,
\* progress, job id, result location, payload and busy flag do not change;
\* and at most one progress interval is active at any time.
C30_SimCancelStrict ==
  [][driver = "sim" =>
       /\ CancelSim => timers' = {} /\ intervals' = {}
       /\ (~busy /\ nsubs' = nsubs)
            => UNCHANGED <<status, progress, jobId, resultUrl, resultData, busy>>
       /\ Cardinality(intervals') <= 1]_vars

\* the second submission was cancelled while PENDING, after some progress
C30_Witness ==
  /\ driver = "sim" /\ nsubs = 2 /\ status = "PENDING" /\ ~busy /\ progress > 0
  /\ timers = {} /\ intervals = {}

====
